---- MODULE Spec2Model ----
(***************************************************************************)
(* State-transition model of the swip server reducer                       *)
(* (src/src/server/reducer.js).  The reducer maps (state, action) to the   *)
(* next state; state = { clusters, clients, swipes }.  A call that throws  *)
(* leaves the stored state as it was and is recorded in err.               *)
(***************************************************************************)
EXTENDS Integers, Sequences, FiniteSets, TLC

VARIABLES clients, clusters, swipes, nextUid, err, last, config

vars == <<clients, clusters, swipes, nextUid, err, last, config>>

\* ------------------------------------------------------------------ bounds
MaxClients == 2
MaxUid == 2
MaxConnections == 1

\* --------------------------------------------------------------- constants
SWIPE_DELAY_TOLERANCE == 500

\* JavaScript null and undefined; uid() values are the positive integers.
Null == 0
Undefined == -1

ClientIds == 1..MaxClients

Size(w, h) == [width |-> w, height |-> h]
Point(x, y) == [x |-> x, y |-> y]

\* Inputs the actions draw from.
Gesture(d, x, y) == [direction |-> d, position |-> Point(x, y)]
Swipe(i, g) == [id |-> i, direction |-> g.direction, position |-> g.position]

\* Inputs of the run that starts from initialState.
Sizes == {Size(100, 100), Size(80, 40)}
Gestures ==
  { Gesture("RIGHT", 50, 50), Gesture("LEFT", 50, 50),
    Gesture("UP", 10, 5), Gesture("DIAGONAL", 50, 50) }
\* Readings of Date.now().  The reducer keeps no clock: a reading is an input
\* of SWIPE, never earlier than the timestamp of a swipe still pending.
Times == {0, 499, 500, 501}

\* Inputs of the run that starts from a preloaded snapshot.
PreSizes == {Size(100, 100)}
PreGestures ==
  { Gesture("RIGHT", 10, 5), Gesture("LEFT", 0, 5), Gesture("DIAGONAL", 0, 5) }
PreTimes == {0}
\* config.client.events: the handlers the embedder registered, and one
\* event type nobody registered.
RegisteredEvents == {"tap", "shake"}
EventTypes == RegisteredEvents \cup {"bogus"}

\* --------------------------------------------------------- state snapshot
State(cl, cs, sw) == [clients |-> cl, clusters |-> cs, swipes |-> sw]

state == State(clients, clusters, swipes)

initialState == State(<<>>, <<>>, <<>>)

Return(s) == [err |-> "none", state |-> s]
Throw(e, s) == [err |-> e, state |-> s]

\* ------------------------------------------------------- object helpers
HasField(obj, f) == f \in DOMAIN obj

\* obj.clusterId, undefined when the object has no such property.
clusterIdOf(client) ==
  IF HasField(client, "clusterId") THEN client.clusterId ELSE Undefined

isNil(v) == v = Null \/ v = Undefined

truthy(v) == ~isNil(v)

\* update(obj, { [key]: { $set: value } })
SetKey(obj, key, value) ==
  [k \in DOMAIN obj \cup {key} |-> IF k = key THEN value ELSE obj[k]]

\* _.omit(obj, [key])
omit(obj, key) == [k \in DOMAIN obj \ {key} |-> obj[k]]

IdSeq == [i \in 1..MaxClients |-> i]

\* utils.getClientsInCluster: the clients whose clusterId is the given id,
\* as an array in key order.
getClientsInCluster(cl, clusterId) ==
  LET ids == SelectSeq(IdSeq,
               LAMBDA i : i \in DOMAIN cl /\ clusterIdOf(cl[i]) = clusterId)
  IN  [k \in 1..Len(ids) |-> cl[ids[k]]]

IdsOf(members) == {members[k].id : k \in 1..Len(members)}

\* utils.getClusterState / utils.getClientState: read-only projections
\* handed to the embedder's hooks.
getClusterState(s, clusterId) ==
  [clients |-> getClientsInCluster(s.clients, clusterId)]

getClientState(s, id) ==
  [clients |-> getClientsInCluster(s.clients, clusterIdOf(s.clients[id]))]

\* ------------------------------------------------------ embedder's hooks
\* config.client.init(client) at connect time.
client_init(client) == 0

\* config.cluster.init(client) at connect time.
cluster_init_connect(client) == {client.id}

\* config.cluster.init([clientA, clientB]).
cluster_init(members) == IdsOf(members)

\* config.client.init(cluster, client) on a merge.
client_init_merge(cluster, client) == 1

\* config.cluster.events.update / config.client.events.update
cluster_update(view) == IdsOf(view.clients)

client_update(view) == 1

\* config.client.events[type](view, data): "tap" patches the client,
\* "shake" patches the cluster.
handler(type, view) ==
  IF type = "tap"
    THEN [hasCluster |-> FALSE, hasClient |-> TRUE, cluster |-> {}, client |-> 0]
    ELSE [hasCluster |-> TRUE, hasClient |-> FALSE, cluster |-> IdsOf(view.clients), client |-> 0]

\* ----------------------------------------------------------- the reducer
hasCluster(client) == ~isNil(clusterIdOf(client))

getAllClustersChanges(s) ==
  [c \in DOMAIN s.clusters |->
     [s.clusters[c] EXCEPT !.data = cluster_update(getClusterState(s, s.clusters[c].id))]]

\* Fault-injected variant of getAllClientsChanges: the update hook is run
\* for every client, clustered or not.
getAllClientsChanges_EveryClient(s) ==
  [i \in DOMAIN s.clients |->
     [k \in DOMAIN s.clients[i] \cup {"data"} |->
        IF k = "data" THEN client_update(getClientState(s, s.clients[i].id))
        ELSE s.clients[i][k]]]

getAllClientsChanges(s) ==
  [i \in DOMAIN s.clients |->
     IF hasCluster(s.clients[i])
       THEN [s.clients[i] EXCEPT !.data = client_update(getClientState(s, s.clients[i].id))]
       ELSE s.clients[i]]

nextState(s, cfg) ==
  Return(State(IF cfg.clientUpdate THEN getAllClientsChanges(s) ELSE s.clients,
               IF cfg.clusterUpdate THEN getAllClustersChanges(s) ELSE s.clusters,
               s.swipes))

\* Fault-injected variant of clientAction: the client is looked up before the
\* handler, so an unregistered type passes silently for an unknown or
\* unclustered client.
clientAction_LookupFirst(s, id, type) ==
  IF id \notin DOMAIN s.clients THEN Return(s)
  ELSE IF ~truthy(clusterIdOf(s.clients[id])) THEN Return(s)
  ELSE IF type \notin RegisteredEvents THEN Throw("UnhandledEvent", s)
  ELSE
    LET client == s.clients[id]
        stateUpdates == handler(type, getClientState(s, client.id))
    IN  IF stateUpdates.hasCluster /\ client.clusterId \notin DOMAIN s.clusters
          THEN Throw("TypeError", s)
          ELSE Return(State(
                 IF stateUpdates.hasClient
                   THEN [s.clients EXCEPT ![client.id].data = stateUpdates.client]
                   ELSE s.clients,
                 IF stateUpdates.hasCluster
                   THEN [s.clusters EXCEPT ![client.clusterId].data = stateUpdates.cluster]
                   ELSE s.clusters,
                 s.swipes))

clientAction(s, id, type) ==
  IF type \notin RegisteredEvents THEN Throw("UnhandledEvent", s)
  ELSE IF id \notin DOMAIN s.clients THEN Return(s)
  ELSE IF ~truthy(clusterIdOf(s.clients[id])) THEN Return(s)
  ELSE
    LET client == s.clients[id]
        stateUpdates == handler(type, getClientState(s, client.id))
    IN  IF stateUpdates.hasCluster /\ client.clusterId \notin DOMAIN s.clusters
          THEN Throw("TypeError", s)
          ELSE Return(State(
                 IF stateUpdates.hasClient
                   THEN [s.clients EXCEPT ![client.id].data = stateUpdates.client]
                   ELSE s.clients,
                 IF stateUpdates.hasCluster
                   THEN [s.clusters EXCEPT ![client.clusterId].data = stateUpdates.cluster]
                   ELSE s.clusters,
                 s.swipes))

\* Fault-injected variant of connect: the new client is laid out after the
\* clients already present instead of at the origin.
connect_Offset(s, id, size, uid) ==
  LET clusterID == uid
      origin == Point(100 * Cardinality(DOMAIN s.clients), 0)
      client == [id |-> id, size |-> size, transform |-> origin,
                 adjacentClientIDs |-> <<>>, clusterID |-> clusterID]
      clientData == client_init(client)
      clusterData == cluster_init_connect(client)
  IN  Return(State(
        SetKey(s.clients, id,
               [id |-> id, size |-> size, transform |-> origin,
                adjacentClientIDs |-> <<>>, clusterID |-> clusterID,
                data |-> clientData]),
        SetKey(s.clusters, clusterID, [id |-> clusterID, data |-> clusterData]),
        s.swipes))

connect(s, id, size, uid) ==
  LET clusterID == uid
      client == [id |-> id, size |-> size, transform |-> Point(0, 0),
                 adjacentClientIDs |-> <<>>, clusterID |-> clusterID]
      clientData == client_init(client)
      clusterData == cluster_init_connect(client)
  IN  Return(State(
        SetKey(s.clients, id,
               [id |-> id, size |-> size, transform |-> Point(0, 0),
                adjacentClientIDs |-> <<>>, clusterID |-> clusterID,
                data |-> clientData]),
        SetKey(s.clusters, clusterID, [id |-> clusterID, data |-> clusterData]),
        s.swipes))

getCoincidentSwipes(sw, t) ==
  SelectSeq(sw, LAMBDA e : (t - e.timestamp) < SWIPE_DELAY_TOLERANCE)

\* Fault-injected variant of addSwipe: the incoming swipe is pushed onto the
\* stored queue instead of the filtered one.
addSwipe_OntoStored(s, sw, swipe, t) ==
  LET swipeWithTimestamp ==
        [id |-> swipe.id, direction |-> swipe.direction,
         position |-> swipe.position, timestamp |-> t]
  IN  Return(State(s.clients, s.clusters, s.swipes \o <<swipeWithTimestamp>>))

addSwipe(s, sw, swipe, t) ==
  LET swipeWithTimestamp ==
        [id |-> swipe.id, direction |-> swipe.direction,
         position |-> swipe.position, timestamp |-> t]
  IN  Return(State(s.clients, s.clusters, sw \o <<swipeWithTimestamp>>))

\* Fault-injected variant of getTransform: an unknown direction falls
\* through to the DOWN arithmetic instead of throwing.
getTransform_NoDefault(clientA, swipeA, clientB, swipeB) ==
  CASE swipeA.direction = "LEFT" ->
         [err |-> "none",
          value |-> Point(clientA.transform.x - clientB.size.width,
                          clientA.transform.y + (swipeA.position.y - swipeB.position.y))]
    [] swipeA.direction = "RIGHT" ->
         [err |-> "none",
          value |-> Point(clientA.transform.x + clientA.size.width,
                          clientA.transform.y + (swipeA.position.y - swipeB.position.y))]
    [] swipeA.direction = "UP" ->
         [err |-> "none",
          value |-> Point(clientA.transform.x + (swipeA.position.x - swipeB.position.x),
                          clientA.transform.y - clientB.size.height)]
    [] OTHER ->
         [err |-> "none",
          value |-> Point(clientA.transform.x + (swipeA.position.x - swipeB.position.x),
                          clientA.transform.y + clientA.size.height)]

\* Fault-injected variant of getTransform: LEFT and UP step by the anchor's
\* own size instead of the joiner's.
getTransform_OwnSize(clientA, swipeA, clientB, swipeB) ==
  CASE swipeA.direction = "LEFT" ->
         [err |-> "none",
          value |-> Point(clientA.transform.x - clientA.size.width,
                          clientA.transform.y + (swipeA.position.y - swipeB.position.y))]
    [] swipeA.direction = "RIGHT" ->
         [err |-> "none",
          value |-> Point(clientA.transform.x + clientA.size.width,
                          clientA.transform.y + (swipeA.position.y - swipeB.position.y))]
    [] swipeA.direction = "UP" ->
         [err |-> "none",
          value |-> Point(clientA.transform.x + (swipeA.position.x - swipeB.position.x),
                          clientA.transform.y - clientA.size.height)]
    [] swipeA.direction = "DOWN" ->
         [err |-> "none",
          value |-> Point(clientA.transform.x + (swipeA.position.x - swipeB.position.x),
                          clientA.transform.y + clientA.size.height)]
    [] OTHER -> [err |-> "InvalidDirection", value |-> Point(0, 0)]

getTransform(clientA, swipeA, clientB, swipeB) ==
  CASE swipeA.direction = "LEFT" ->
         [err |-> "none",
          value |-> Point(clientA.transform.x - clientB.size.width,
                          clientA.transform.y + (swipeA.position.y - swipeB.position.y))]
    [] swipeA.direction = "RIGHT" ->
         [err |-> "none",
          value |-> Point(clientA.transform.x + clientA.size.width,
                          clientA.transform.y + (swipeA.position.y - swipeB.position.y))]
    [] swipeA.direction = "UP" ->
         [err |-> "none",
          value |-> Point(clientA.transform.x + (swipeA.position.x - swipeB.position.x),
                          clientA.transform.y - clientB.size.height)]
    [] swipeA.direction = "DOWN" ->
         [err |-> "none",
          value |-> Point(clientA.transform.x + (swipeA.position.x - swipeB.position.x),
                          clientA.transform.y + clientA.size.height)]
    [] OTHER -> [err |-> "InvalidDirection", value |-> Point(0, 0)]

\* { $push: [id] } on the connections of a client: immutability-helper
\* rejects a target that is not an array.
canPush(client) == HasField(client, "connections")

\* Fault-injected variant of joinCluster: the host cluster's data is
\* re-initialised from the updated member list.
joinCluster_ReinitsHost(s, clientA, swipeA, clientB, swipeB) ==
  LET clusterId == clientA.clusterId
      cluster == [clients |-> getClientsInCluster(s.clients, clusterId) \o <<clientB>>]
      clientData == client_init_merge(cluster, clientB)
      t == getTransform(clientA, swipeA, clientB, swipeB)
      afterA == IF clientA.id = clientB.id
                  THEN s.clients
                  ELSE [s.clients EXCEPT ![clientA.id].connections = Append(@, swipeB.id)]
  IN  IF t.err # "none" THEN Throw(t.err, s)
      ELSE IF clientA.id # clientB.id /\ ~canPush(s.clients[clientA.id])
        THEN Throw("PushTarget", s)
      ELSE IF ~canPush(s.clients[clientB.id]) THEN Throw("PushTarget", s)
      ELSE Return(State(
             [afterA EXCEPT ![clientB.id] =
                [k \in DOMAIN @ \cup {"clusterId"} |->
                   CASE k = "clusterId" -> clusterId
                     [] k = "data" -> clientData
                     [] k = "transform" -> t.value
                     [] k = "connections" -> Append(@[k], swipeA.id)
                     [] OTHER -> @[k]]],
             [s.clusters EXCEPT ![clusterId].data = cluster_init(cluster.clients)],
             s.swipes))

joinCluster(s, clientA, swipeA, clientB, swipeB) ==
  LET clusterId == clientA.clusterId
      cluster == [clients |-> getClientsInCluster(s.clients, clusterId) \o <<clientB>>]
      clientData == client_init_merge(cluster, clientB)
      t == getTransform(clientA, swipeA, clientB, swipeB)
      \* a duplicate computed key keeps the last entry of the literal
      afterA == IF clientA.id = clientB.id
                  THEN s.clients
                  ELSE [s.clients EXCEPT ![clientA.id].connections = Append(@, swipeB.id)]
  IN  IF t.err # "none" THEN Throw(t.err, s)
      ELSE IF clientA.id # clientB.id /\ ~canPush(s.clients[clientA.id])
        THEN Throw("PushTarget", s)
      ELSE IF ~canPush(s.clients[clientB.id]) THEN Throw("PushTarget", s)
      ELSE Return(State(
             [afterA EXCEPT ![clientB.id] =
                [k \in DOMAIN @ \cup {"clusterId"} |->
                   CASE k = "clusterId" -> clusterId
                     [] k = "data" -> clientData
                     [] k = "transform" -> t.value
                     [] k = "connections" -> Append(@[k], swipeA.id)
                     [] OTHER -> @[k]]],
             s.clusters, s.swipes))

createCluster(s, clientA, swipeA, clientB, swipeB, uid) ==
  LET clusterId == uid
      clusterData == cluster_init(<<clientA, clientB>>)
      cluster == [clients |-> <<clientA, clientB>>]
      clientAData == client_init_merge(cluster, clientA)
      clientBData == client_init_merge(cluster, clientB)
      t == getTransform(clientA, swipeA, clientB, swipeB)
      afterA == IF clientA.id = clientB.id
                  THEN s.clients
                  ELSE [s.clients EXCEPT ![clientA.id] =
                          [k \in DOMAIN @ \cup {"clusterId"} |->
                             CASE k = "clusterId" -> clusterId
                               [] k = "data" -> clientAData
                               [] k = "connections" -> Append(@[k], swipeB.id)
                               [] OTHER -> @[k]]]
  IN  IF t.err # "none" THEN Throw(t.err, s)
      ELSE IF clientA.id # clientB.id /\ ~canPush(s.clients[clientA.id])
        THEN Throw("PushTarget", s)
      ELSE IF ~canPush(s.clients[clientB.id]) THEN Throw("PushTarget", s)
      ELSE Return(State(
             [afterA EXCEPT ![clientB.id] =
                [k \in DOMAIN @ \cup {"clusterId"} |->
                   CASE k = "clusterId" -> clusterId
                     [] k = "data" -> clientBData
                     [] k = "transform" -> t.value
                     [] k = "connections" -> Append(@[k], swipeA.id)
                     [] OTHER -> @[k]]],
             SetKey(s.clusters, clusterId, [data |-> clusterData, id |-> clusterId]),
             s.swipes))

clusterClients(s, swipeA, swipeB, uid) ==
  IF swipeA.id \notin DOMAIN s.clients \/ swipeB.id \notin DOMAIN s.clients
    THEN Throw("TypeError", s)
  ELSE
    LET clientA == s.clients[swipeA.id]
        clientB == s.clients[swipeB.id]
    IN  IF truthy(clusterIdOf(clientA))
          THEN joinCluster(s, clientA, swipeA, clientB, swipeB)
        ELSE IF truthy(clusterIdOf(clientB))
          THEN joinCluster(s, clientB, swipeB, clientA, swipeA)
        ELSE createCluster(s, clientA, swipeA, clientB, swipeB, uid)

doSwipe(s, swipe, t, uid) ==
  LET sw == getCoincidentSwipes(s.swipes, t)
  IN  IF Len(sw) = 0 THEN addSwipe(s, sw, swipe, t)
      ELSE
        LET swipeA == swipe
            swipeB == sw[1]
            r == clusterClients(s, swipeA, swipeB, uid)
        IN  IF r.err # "none" THEN Throw(r.err, s)
            ELSE Return(State(r.state.clients, r.state.clusters, <<>>))

\* Fault-injected variant of removeEmptyCluster: the record goes while one
\* member remains.
removeEmptyCluster_AtTwo(cs, cl, clusterId) ==
  IF Len(getClientsInCluster(cl, clusterId)) > 2 THEN cs
  ELSE omit(cs, clusterId)

removeEmptyCluster(cs, cl, clusterId) ==
  IF Len(getClientsInCluster(cl, clusterId)) > 1 THEN cs
  ELSE omit(cs, clusterId)

\* Fault-injected variant of leaveCluster: the client is dereferenced
\* without the guard for an unknown id.
leaveCluster_Unguarded(s, id) ==
  IF id \notin DOMAIN s.clients THEN Throw("TypeError", s)
  ELSE
    LET client == s.clients[id]
        clusterId == clusterIdOf(client)
    IN  IF isNil(clusterId) THEN Return(s)
        ELSE Return(State(
               [s.clients EXCEPT ![id].clusterId = Null],
               removeEmptyCluster(s.clusters, s.clients, clusterId),
               s.swipes))

leaveCluster(s, id) ==
  IF id \notin DOMAIN s.clients THEN Return(s)
  ELSE
    LET client == s.clients[id]
        clusterId == clusterIdOf(client)
    IN  IF isNil(clusterId) THEN Return(s)
        ELSE Return(State(
               [s.clients EXCEPT ![id].clusterId = Null],
               removeEmptyCluster(s.clusters, s.clients, clusterId),
               s.swipes))

\* Fault-injected variant of disconnect: the cluster of the departed client
\* is not cleaned up.
disconnect_NoCleanup(s, id) ==
  IF id \notin DOMAIN s.clients THEN Return(s)
  ELSE Return(State(omit(s.clients, id), s.clusters, s.swipes))

disconnect(s, id) ==
  IF id \notin DOMAIN s.clients THEN Return(s)
  ELSE
    LET client == s.clients[id]
        clusterId == clusterIdOf(client)
    IN  Return(State(omit(s.clients, id),
                     removeEmptyCluster(s.clusters, s.clients, clusterId),
                     s.swipes))

\* ---------------------------------------------------------------- actions
Action(type) == [type |-> type]

Apply(r) ==
  /\ clients' = r.state.clients
  /\ clusters' = r.state.clusters
  /\ swipes' = r.state.swipes
  /\ err' = r.err

\* no client accumulates more than MaxConnections pairings
WithinBounds(s) ==
  \A i \in DOMAIN s.clients :
    HasField(s.clients[i], "connections") =>
      Len(s.clients[i].connections) <= MaxConnections

NEXT_STATE ==
  /\ Apply(nextState(state, config))
  /\ last' = Action("NEXT_STATE")
  /\ UNCHANGED <<nextUid, config>>

CLIENT_ACTION(id, type) ==
  /\ Apply(clientAction(state, id, type))
  /\ last' = Action("CLIENT_ACTION")
  /\ UNCHANGED <<nextUid, config>>

CONNECT(id, size) ==
  /\ nextUid <= MaxUid
  /\ Apply(connect(state, id, size, nextUid))
  /\ nextUid' = nextUid + 1
  /\ last' = Action("CONNECT")
  /\ UNCHANGED config

SWIPE(swipe, t) ==
  LET r == doSwipe(state, swipe, t, nextUid)
      created == DOMAIN r.state.clusters # DOMAIN clusters
  IN  /\ \A k \in 1..Len(swipes) : swipes[k].timestamp <= t
      /\ created => nextUid <= MaxUid
      /\ WithinBounds(r.state)
      /\ Apply(r)
      /\ nextUid' = IF created THEN nextUid + 1 ELSE nextUid
      /\ last' = Action("SWIPE")
      /\ UNCHANGED config

LEAVE_CLUSTER(id) ==
  /\ Apply(leaveCluster(state, id))
  /\ last' = Action("LEAVE_CLUSTER")
  /\ UNCHANGED <<nextUid, config>>

DISCONNECT(id) ==
  /\ Apply(disconnect(state, id))
  /\ last' = Action("DISCONNECT")
  /\ UNCHANGED <<nextUid, config>>

Configs == [clientUpdate : BOOLEAN, clusterUpdate : BOOLEAN]

Init ==
  /\ clients = initialState.clients
  /\ clusters = initialState.clusters
  /\ swipes = initialState.swipes
  /\ nextUid = 1
  /\ err = "none"
  /\ last = Action("INIT")
  /\ config \in Configs

Step(sizes, gestures, times) ==
  \/ NEXT_STATE
  \/ \E id \in ClientIds, type \in EventTypes : CLIENT_ACTION(id, type)
  \/ \E id \in ClientIds, size \in sizes : CONNECT(id, size)
  \/ \E id \in ClientIds, g \in gestures, t \in times : SWIPE(Swipe(id, g), t)
  \/ \E id \in ClientIds : LEAVE_CLUSTER(id)
  \/ \E id \in ClientIds : DISCONNECT(id)

Next == Step(Sizes, Gestures, Times)

NextPre == Step(PreSizes, PreGestures, PreTimes)

Spec == Init /\ [][Next]_vars

\* The reducer is a function of the state it is handed.  SpecPre starts it
\* from a snapshot whose clients carry the fields of the data model
\* (clusterId, connections): each client is absent, in no cluster, or a
\* member of the one cluster the snapshot holds.
PreSize(i) ==
  IF i = 1 THEN Size(100, 50) ELSE IF i = 2 THEN Size(80, 40) ELSE Size(100, 100)

PreClient(i, c) ==
  [id |-> i, size |-> PreSize(i), transform |-> Point(0, 0),
   clusterId |-> c, connections |-> <<>>, data |-> 0]

InitPre ==
  /\ \E ids \in SUBSET ClientIds : \E m \in SUBSET ids :
       /\ clients = [i \in ids |-> PreClient(i, IF i \in m THEN 1 ELSE Null)]
       /\ clusters = [c \in (IF m = {} THEN {} ELSE {1}) |-> [id |-> c, data |-> m]]
  /\ swipes = initialState.swipes
  /\ nextUid = 2
  /\ err = "none"
  /\ last = Action("INIT")
  /\ config \in Configs

SpecPre == InitPre /\ [][NextPre]_vars

\* ----------------------------------------------------------------- claims
Members(cl, c) == {i \in DOMAIN cl : clusterIdOf(cl[i]) = c}

Known(id) == id \in DOMAIN clients

Stamped(swipe, t) ==
  [id |-> swipe.id, direction |-> swipe.direction,
   position |-> swipe.position, timestamp |-> t]

ValidDirections == {"LEFT", "RIGHT", "UP", "DOWN"}

StoreUnchanged == UNCHANGED <<clients, clusters, swipes>>

\* C1: every cluster record is referenced through clusterId by at least one
\* client; a cluster never exists with zero members.
C1_NoMemberlessCluster ==
  \A c \in DOMAIN clusters : Members(clients, c) # {}

C3_ClusterIdResolves ==
  \A i \in DOMAIN clients :
    hasCluster(clients[i]) => clusterIdOf(clients[i]) \in DOMAIN clusters

\* Two clients share a cluster the reducer created, after one of a larger
\* history of merges and departures.
C3_Witness ==
  /\ last.type \in {"LEAVE_CLUSTER", "DISCONNECT"}
  /\ \E i \in DOMAIN clients :
       /\ hasCluster(clients[i])
       /\ clients[i].clusterId >= 2
       /\ clients[i].connections # <<>>
       /\ Members(clients, clients[i].clusterId) = {i}

\* C4: CONNECT(1, 100x100); CONNECT(2, 100x100); SWIPE(1, RIGHT, {50,50});
\* SWIPE(2, LEFT, {50,50}) less than 500 ms later: no error, both clients
\* share one existing cluster, the queue is empty and client 2 is 100 to the
\* right of client 1.
C4_AfterFirstSwipe(t0) ==
  LET s1 == connect(initialState, 1, Size(100, 100), 1).state
      s2 == connect(s1, 2, Size(100, 100), 2).state
  IN  doSwipe(s2, Swipe(1, Gesture("RIGHT", 50, 50)), t0, 3).state

C4_Paired ==
  /\ err = "none"
  /\ {1, 2} \subseteq DOMAIN clients
  /\ hasCluster(clients[1])
  /\ clusterIdOf(clients[2]) = clusterIdOf(clients[1])
  /\ clusterIdOf(clients[1]) \in DOMAIN clusters
  /\ swipes = <<>>
  /\ clients[2].transform.x = clients[1].transform.x + 100

C4_Scenario ==
  [][\A t0 \in Times, t \in Times :
       (/\ last'.type = "SWIPE"
        /\ state = C4_AfterFirstSwipe(t0)
        /\ nextUid = 3
        /\ t >= t0
        /\ t - t0 < 500
        /\ SWIPE(Swipe(2, Gesture("LEFT", 50, 50)), t))
       => C4_Paired']_vars

\* The pending swipe a SWIPE read at time t is matched with.
Candidates(t) == getCoincidentSwipes(swipes, t)

\* A SWIPE of a connected client, in a valid direction, that finds the
\* pending swipe of another connected client inside the window.
MatchedSwipe(id, g, t) ==
  /\ last'.type = "SWIPE"
  /\ Known(id)
  /\ g.direction \in ValidDirections
  /\ Len(Candidates(t)) > 0
  /\ Known(Candidates(t)[1].id)
  /\ Candidates(t)[1].id # id
  /\ SWIPE(Swipe(id, g), t)

\* C5: with exactly one pending swipe stamped t0, a SWIPE at t0 + 499 merges
\* the two clients and clears the queue; a SWIPE at t0 + 501 merges nothing
\* and is queued.
C5_Window ==
  [][\A id \in ClientIds, g \in Gestures, t \in Times :
       (/\ last'.type = "SWIPE"
        /\ Len(swipes) = 1
        /\ Known(id)
        /\ Known(swipes[1].id)
        /\ swipes[1].id # id
        /\ g.direction \in ValidDirections
        /\ SWIPE(Swipe(id, g), t))
       =>
       /\ (t - swipes[1].timestamp = 499 =>
             /\ err' = "none"
             /\ swipes' = <<>>
             /\ hasCluster(clients'[id])
             /\ clusterIdOf(clients'[id]) = clusterIdOf(clients'[swipes[1].id]))
       /\ (t - swipes[1].timestamp = 501 =>
             /\ err' = "none"
             /\ swipes' # <<>>
             /\ swipes'[Len(swipes')] = Stamped(Swipe(id, g), t)
             /\ clients' = clients
             /\ clusters' = clusters)]_vars

\* C6 as stated: a SWIPE that finds no pending swipe inside the window leaves
\* every earlier entry of the queue in place and appends the incoming swipe,
\* stamped with the receipt time; clients and clusters are unchanged.
C6_StaleEntriesKept ==
  [][\A id \in ClientIds, g \in Gestures, t \in Times :
       (/\ last'.type = "SWIPE"
        /\ Len(Candidates(t)) = 0
        /\ SWIPE(Swipe(id, g), t))
       =>
       /\ swipes' = swipes \o <<Stamped(Swipe(id, g), t)>>
       /\ clients' = clients
       /\ clusters' = clusters]_vars

\* C6 amended: a SWIPE that finds no pending swipe inside the window leaves
\* the queue holding exactly the incoming swipe, stamped with the receipt
\* time: the stale entries are dropped in the same step; clients and clusters
\* are unchanged.
C6_QueueReplaced ==
  [][\A id \in ClientIds, g \in Gestures, t \in Times :
       (/\ last'.type = "SWIPE"
        /\ Len(Candidates(t)) = 0
        /\ SWIPE(Swipe(id, g), t))
       =>
       /\ err' = "none"
       /\ swipes' = <<Stamped(Swipe(id, g), t)>>
       /\ clients' = clients
       /\ clusters' = clusters]_vars

\* A swipe was queued at a time when a swipe stamped 0 is stale.
C6_Witness ==
  /\ last.type = "SWIPE"
  /\ err = "none"
  /\ Len(swipes) = 1
  /\ swipes[1].timestamp >= SWIPE_DELAY_TOLERANCE

\* C7: a SWIPE that finds a pending swipe inside the window leaves the queue
\* empty.
C7_QueueCleared ==
  [][\A id \in ClientIds, g \in Gestures, t \in Times :
       MatchedSwipe(id, g, t) => swipes' = <<>>]_vars

\* C8: on a matched SWIPE of client A against pending client B, B joins A's
\* cluster if A has one, else A joins B's if B has one, else one new cluster
\* is created for both; afterwards A and B have the same non-null clusterId.
C8_MergePolicy ==
  [][\A id \in ClientIds, g \in Gestures, t \in Times :
       MatchedSwipe(id, g, t) =>
       LET A == clients[id]
           B == clients[Candidates(t)[1].id]
           created == DOMAIN clusters' \ DOMAIN clusters
       IN  /\ hasCluster(clients'[A.id])
           /\ clusterIdOf(clients'[B.id]) = clusterIdOf(clients'[A.id])
           /\ (hasCluster(A) =>
                 clusterIdOf(clients'[B.id]) = clusterIdOf(A) /\ created = {})
           /\ (~hasCluster(A) /\ hasCluster(B) =>
                 clusterIdOf(clients'[A.id]) = clusterIdOf(B) /\ created = {})
           /\ (~hasCluster(A) /\ ~hasCluster(B) =>
                 created = {clusterIdOf(clients'[A.id])})]_vars

\* C9: CLIENT_ACTION with a type no handler is registered for fails with the
\* unhandled-event error, whatever the client id, and changes nothing.
C9_UnhandledEventThrows ==
  [][\A id \in ClientIds, type \in EventTypes \ RegisteredEvents :
       (last'.type = "CLIENT_ACTION" /\ CLIENT_ACTION(id, type))
       => (err' = "UnhandledEvent" /\ StoreUnchanged)]_vars

\* The error was raised in a state that holds a clustered client and lacks
\* some client id.
C9_Witness ==
  /\ last.type = "CLIENT_ACTION"
  /\ err = "UnhandledEvent"
  /\ \E i \in DOMAIN clients : hasCluster(clients[i])
  /\ \E j \in ClientIds : ~Known(j)

\* C10: CLIENT_ACTION with a registered type, LEAVE_CLUSTER and DISCONNECT
\* for an id that is not in clients, and CLIENT_ACTION and LEAVE_CLUSTER for a
\* client that is in no cluster, return the state unchanged with no error.
C10_AbsentEntityNoOp ==
  [][\A id \in ClientIds :
       /\ \A type \in RegisteredEvents :
            (/\ last'.type = "CLIENT_ACTION"
             /\ (~Known(id) \/ ~hasCluster(clients[id]))
             /\ CLIENT_ACTION(id, type))
            => (err' = "none" /\ StoreUnchanged)
       /\ (/\ last'.type = "LEAVE_CLUSTER"
           /\ (~Known(id) \/ ~hasCluster(clients[id]))
           /\ LEAVE_CLUSTER(id))
          => (err' = "none" /\ StoreUnchanged)
       /\ (/\ last'.type = "DISCONNECT"
           /\ ~Known(id)
           /\ DISCONNECT(id))
          => (err' = "none" /\ StoreUnchanged)]_vars

\* A client event was dispatched where no client is in a cluster: one client
\* has only connected, and another id is absent or has its clusterId cleared.
C10_Witness ==
  /\ last.type = "CLIENT_ACTION"
  /\ err = "none"
  /\ \A i \in DOMAIN clients : ~hasCluster(clients[i])
  /\ \E i \in DOMAIN clients : HasField(clients[i], "clusterID")
  /\ \E j \in ClientIds :
       \/ ~Known(j)
       \/ (HasField(clients[j], "clusterId") /\ clients[j].clusterId = Null)

\* The swipe whose direction getTransform reads on a match of the incoming
\* swipe against the pending one: the incoming swipe, unless only the pending
\* client has a cluster.
AnchorSwipe(incoming, pending) ==
  IF hasCluster(clients[incoming.id]) THEN incoming
  ELSE IF hasCluster(clients[pending.id]) THEN pending
  ELSE incoming

\* C11: a matched SWIPE between two connected clients whose anchor swipe has
\* a direction other than LEFT, RIGHT, UP, DOWN fails with InvalidDirection
\* and leaves clients, clusters and the queue (candidate included) as they
\* were.
C11_InvalidDirectionThrows ==
  [][\A id \in ClientIds, g \in PreGestures, t \in PreTimes :
       (/\ last'.type = "SWIPE"
        /\ Known(id)
        /\ Len(Candidates(t)) > 0
        /\ Known(Candidates(t)[1].id)
        /\ AnchorSwipe(Swipe(id, g), Candidates(t)[1]).direction \notin ValidDirections
        /\ SWIPE(Swipe(id, g), t))
       => (err' = "InvalidDirection" /\ StoreUnchanged)]_vars

\* The error was raised with the candidate still pending, in a state where
\* the clients could otherwise have been merged.
C11_Witness ==
  /\ last.type = "SWIPE"
  /\ err = "InvalidDirection"
  /\ Len(swipes) = 1
  /\ \E i \in DOMAIN clients : i # swipes[1].id /\ canPush(clients[i])
  /\ canPush(clients[swipes[1].id])

\* C12: NEXT_STATE keeps the key sets of clients and clusters, the queue and
\* every client field other than data; a client with no cluster keeps its
\* data; with neither update hook configured the state is returned as it was.
C12_TickFrame ==
  [][(last'.type = "NEXT_STATE" /\ NEXT_STATE) =>
       /\ err' = "none"
       /\ DOMAIN clients' = DOMAIN clients
       /\ DOMAIN clusters' = DOMAIN clusters
       /\ swipes' = swipes
       /\ \A i \in DOMAIN clients :
            /\ DOMAIN clients'[i] = DOMAIN clients[i]
            /\ \A k \in DOMAIN clients[i] \ {"data"} : clients'[i][k] = clients[i][k]
            /\ (~hasCluster(clients[i]) => clients'[i] = clients[i])
       /\ (~config.clientUpdate /\ ~config.clusterUpdate => StoreUnchanged)]_vars

\* A tick has rewritten the data of a preloaded cluster member while another
\* client is in no cluster.
C12_Witness ==
  /\ last.type = "NEXT_STATE"
  /\ config.clientUpdate
  /\ \E i, j \in DOMAIN clients :
       /\ hasCluster(clients[i])
       /\ clients[i].connections = <<>>
       /\ clients[i].data = 1
       /\ ~hasCluster(clients[j])

\* C13: CONNECT(id, size) leaves under id one client record with transform
\* {0, 0} and connections the empty sequence, adds exactly one cluster record
\* under a fresh id, and leaves every other client, every other cluster and
\* the queue unchanged.
C13_ConnectRecord ==
  [][\A id \in ClientIds, size \in Sizes :
       (last'.type = "CONNECT" /\ CONNECT(id, size)) =>
       /\ err' = "none"
       /\ DOMAIN clients' = DOMAIN clients \cup {id}
       /\ clients'[id].id = id
       /\ clients'[id].size = size
       /\ clients'[id].transform = Point(0, 0)
       /\ HasField(clients'[id], "connections")
       /\ clients'[id].connections = <<>>
       /\ \A i \in DOMAIN clients \ {id} : clients'[i] = clients[i]
       /\ Cardinality(DOMAIN clusters' \ DOMAIN clusters) = 1
       /\ \A c \in DOMAIN clusters : c \in DOMAIN clusters' /\ clusters'[c] = clusters[c]
       /\ swipes' = swipes]_vars

\* C14: in every reachable state, for every client id in it, DISCONNECT(id)
\* followed by CONNECT(id, size) leaves under id the record that CONNECT(id,
\* size) produces from the initial state with the same fresh cluster id.
C14_ReconnectIsFresh ==
  \A id \in DOMAIN clients, size \in Sizes :
    LET s1 == disconnect(state, id)
        s2 == connect(s1.state, id, size, nextUid)
        fresh == connect(initialState, id, size, nextUid)
    IN  /\ s1.err = "none"
        /\ id \notin DOMAIN s1.state.clients
        /\ s2.err = "none"
        /\ s2.state.clients[id] = fresh.state.clients[id]

\* A client holds a record that differs from a fresh one in transform,
\* clusterId, connections and data, next to another client.
C14_Witness ==
  \E i, j \in DOMAIN clients :
    /\ i # j
    /\ hasCluster(clients[i])
    /\ clients[i].transform # Point(0, 0)
    /\ clients[i].connections # <<>>
    /\ clients[i].data = 1

\* A matched SWIPE of a connected client against the pending swipe of
\* another connected client, one of the two being in a cluster already.
JoinSwipe(id, g, t) ==
  /\ last'.type = "SWIPE"
  /\ Known(id)
  /\ Len(Candidates(t)) > 0
  /\ Known(Candidates(t)[1].id)
  /\ Candidates(t)[1].id # id
  /\ (hasCluster(clients[id]) \/ hasCluster(clients[Candidates(t)[1].id]))
  /\ SWIPE(Swipe(id, g), t)

\* The cluster the join is into, and the client that joins it.
HostOf(id, t) ==
  IF hasCluster(clients[id]) THEN clients[id].clusterId
  ELSE clients[Candidates(t)[1].id].clusterId

JoinerOf(id, t) ==
  IF hasCluster(clients[id]) THEN Candidates(t)[1].id ELSE id

connectionsOf(client) ==
  IF HasField(client, "connections") THEN client.connections ELSE <<>>

\* C16: a matched SWIPE between two clients created by CONNECT completes
\* without error and appends to each side's connections the id of the other.
C16_ConnectionsAppended ==
  [][\A id \in ClientIds, g \in Gestures, t \in Times :
       (/\ MatchedSwipe(id, g, t)
        /\ HasField(clients[id], "clusterID")
        /\ HasField(clients[Candidates(t)[1].id], "clusterID"))
       =>
       LET other == Candidates(t)[1].id
       IN  /\ err' = "none"
           /\ HasField(clients'[id], "connections")
           /\ clients'[id].connections = Append(connectionsOf(clients[id]), other)
           /\ HasField(clients'[other], "connections")
           /\ clients'[other].connections = Append(connectionsOf(clients[other]), id)]_vars

\* Inputs of the run that exercises the four directions of getTransform from
\* the preloaded snapshots.
GeoGestures ==
  { Gesture("RIGHT", 10, 5), Gesture("LEFT", 0, 5),
    Gesture("UP", 3, 7), Gesture("DOWN", 4, 9) }

\* Positions the clients of a snapshot may already hold.
GeoOrigins == {Point(0, 0), Point(30, -20)}

\* The snapshots of InitPre, each client at one of the origins, with no
\* update hook configured: doSwipe does not read the hooks.
InitGeo ==
  /\ \E ids \in SUBSET ClientIds : \E m \in SUBSET ids : \E o \in [ids -> GeoOrigins] :
       /\ clients = [i \in ids |->
                       [PreClient(i, IF i \in m THEN 1 ELSE Null) EXCEPT !.transform = o[i]]]
       /\ clusters = [c \in (IF m = {} THEN {} ELSE {1}) |-> [id |-> c, data |-> m]]
  /\ swipes = initialState.swipes
  /\ nextUid = 2
  /\ err = "none"
  /\ last = Action("INIT")
  /\ config = [clientUpdate |-> FALSE, clusterUpdate |-> FALSE]

\* Swipes only: the geometry is decided by doSwipe.
NextGeo ==
  \E id \in ClientIds, g \in GeoGestures, t \in PreTimes : SWIPE(Swipe(id, g), t)

SpecGeo == InitGeo /\ [][NextGeo]_vars

\* The client the transform is measured from on a match of the incoming
\* client id against the pending swipe: the incoming client, unless only the
\* pending client has a cluster.
AnchorOf(id, t) ==
  IF hasCluster(clients[id]) THEN id
  ELSE IF hasCluster(clients[Candidates(t)[1].id]) THEN Candidates(t)[1].id
  ELSE id

\* C17: after a match that succeeds the anchor keeps its transform and the
\* joiner's transform is, by the anchor's swipe direction: LEFT x = anchor.x -
\* joiner.width, RIGHT x = anchor.x + anchor.width, both with y = anchor.y +
\* (anchorSwipe.y - joinerSwipe.y); UP y = anchor.y - joiner.height, DOWN y =
\* anchor.y + anchor.height, both with x = anchor.x + (anchorSwipe.x -
\* joinerSwipe.x).  Pairing client 1 (RIGHT at {10,5}, 100x50) with client 2
\* (LEFT at {0,5}, 80x40) leaves client 2 at {client 1.x + 100, client 1.y},
\* whichever swipe came first.
C17_TransformByDirection ==
  [][\A id \in ClientIds, g \in GeoGestures, t \in PreTimes :
       (MatchedSwipe(id, g, t) /\ err' = "none") =>
       LET pending == Candidates(t)[1]
           a == AnchorOf(id, t)
           j == IF a = id THEN pending.id ELSE id
           sa == IF a = id THEN Swipe(id, g) ELSE pending
           sj == IF a = id THEN pending ELSE Swipe(id, g)
           A == clients[a]
           J == clients[j]
           T == clients'[j].transform
       IN  /\ clients'[a].transform = A.transform
           /\ (sa.direction = "LEFT" =>
                 /\ T.x = A.transform.x - J.size.width
                 /\ T.y = A.transform.y + (sa.position.y - sj.position.y))
           /\ (sa.direction = "RIGHT" =>
                 /\ T.x = A.transform.x + A.size.width
                 /\ T.y = A.transform.y + (sa.position.y - sj.position.y))
           /\ (sa.direction = "UP" =>
                 /\ T.y = A.transform.y - J.size.height
                 /\ T.x = A.transform.x + (sa.position.x - sj.position.x))
           /\ (sa.direction = "DOWN" =>
                 /\ T.y = A.transform.y + A.size.height
                 /\ T.x = A.transform.x + (sa.position.x - sj.position.x))
           /\ ((/\ {Swipe(id, g), [k \in {"id", "direction", "position"} |-> pending[k]]}
                     = {Swipe(1, Gesture("RIGHT", 10, 5)), Swipe(2, Gesture("LEFT", 0, 5))}
                 /\ clients[1].size = Size(100, 50)
                 /\ clients[2].size = Size(80, 40))
                => clients'[2].transform =
                     Point(clients'[1].transform.x + 100, clients'[1].transform.y))]_vars

\* Client 2 swiped LEFT second and became the anchor: client 1 was moved to
\* the left of it.
C17_Witness ==
  /\ last.type = "SWIPE"
  /\ err = "none"
  /\ {1, 2} \subseteq DOMAIN clients
  /\ hasCluster(clients[1])
  /\ clusterIdOf(clients[2]) = clusterIdOf(clients[1])
  /\ clients[1].connections = <<2>>
  /\ clients[1].transform = Point(-100, 0)
  /\ clients[2].transform = Point(0, 0)

\* C18: the stored queue never holds more than one entry.
C18_AtMostOnePending ==
  Len(swipes) <= 1

\* A second swipe arrived inside the window of the pending one, failed to
\* merge, and the queue still holds the one entry.
C18_Witness ==
  /\ last.type = "SWIPE"
  /\ err = "PushTarget"
  /\ Len(swipes) = 1
  /\ swipes[1].timestamp > 0

C20_PendingIdsKnown ==
  \A k \in 1..Len(swipes) : swipes[k].id \in DOMAIN clients

====
